---- MODULE Spec2Model ----
(***************************************************************************)
(* License / usage gate, license store lifecycle and rate limiter of the   *)
(* AI dental note backend (src/backend/auth.py, src/main.py).              *)
(*                                                                         *)
(* Every database call of the code opens its own SessionLocal() and does   *)
(* an ORM read (db.query(...).first()/.all()) followed later by a separate *)
(* db.commit() that flushes an INSERT for an added object and, for a       *)
(* loaded object, an UPDATE of the attributes whose assigned value differs *)
(* from the value loaded (the unit of work writes net changes only).  The  *)
(* code takes no row lock and states no isolation level.  Procs are the    *)
(* server processes that share the database (the workers of the API, the   *)
(* webhook receiver, the scheduled sweep).  The code of a call is          *)
(* synchronous, so a process runs one call at a time, and the calls of     *)
(* different processes interleave at their database statements: a call is  *)
(* modelled as its read step and its commit step.                          *)
(* The rate limiter is an object in the memory of one process.             *)
(*                                                                         *)
(* auth.py imports the module jwt and names jwt.JWTError in its except     *)
(* clause; Builds are the two installations: one whose jwt module has that *)
(* attribute and one (PyJWT) whose jwt module has not.  jwt.decode checks  *)
(* the signature and the exp claim itself.  The server's local time is     *)
(* taken to be UTC (auth.py line 101 compares local time with UTC).        *)
(*                                                                         *)
(* main.py uses SessionLocal, License and Path without importing them;     *)
(* they are read as auth.SessionLocal, auth.License and pathlib.Path, and  *)
(* the failure of the lookup is one of the outcomes of the audio endpoint. *)
(*                                                                         *)
(* Time is one integer clock.  The code's durations are scaled to clock    *)
(* units (CycleLen for timedelta(days=30), TokenTTL for                    *)
(* JWT_EXPIRATION_MINUTES, Window for the limiter's window).  A clock unit *)
(* is far longer than a database transaction, so under Spec the clock does *)
(* not advance between a call's read and its commit; SpecDrift lets it     *)
(* advance there, SpecLimiter runs the rate limiter on its own, and        *)
(* SpecToken issues and decodes tokens.  SpecCycle (requests against       *)
(* reconciliation runs), SpecSweep (reconciliation runs that may fail),    *)
(* SpecPair (requests of two subscribers) and SpecStats (usage statistics  *)
(* against subscription changes) start from a store that already holds     *)
(* licenses.                                                               *)
(***************************************************************************)
EXTENDS Integers, Sequences, FiniteSets, TLC

\* ------------------------------------------------------------------ bounds
MaxTime == 2
MaxLimit == 2
MaxCalls == 3

Procs == {"p1", "p2"}
Users == {"u1"}
Emails == {"e1"}
\* the arguments create_token is called with
TokenUsers == Users \cup {"u2"}
TokenEmails == Emails \cup {"e2"}
TokenPlans == {"starter", "pro"}
\* the installations of the jwt module
Builds == {"JWTError_defined", "JWTError_missing"}
\* what the endpoints key the limiter by: token_data["sub"] or client_ip
Idents == Users \cup {"ip_1"}
\* what a checkout passes to create_license: a plan with its notes_limit, and
\* the Stripe customer and subscription that bought it
Purchases == {<<"starter", 1, "cus_1", "sub_1">>, <<"pro", MaxLimit, "cus_2", "sub_2">>}
SubIds == {x[4] : x \in Purchases}

\* ------------------------------------------------- scaled program durations
CycleLen == 1
TokenTTL == 1
Limit == 1
Window == 1

VARIABLES
    licenses,   \* the licenses table: a sequence of rows, row id = index
    requests,   \* per server process, RateLimiter.requests: identifier -> timestamps
    now,        \* the clock (datetime.utcnow() / time.time())
    pc,         \* per process: where its current call stands
    call,       \* per process: the operation and arguments of its call
    loc,        \* per process: what its session read (ORM objects in memory)
    ev,         \* what the step just taken returned or raised to its caller, if it ended a call
    stale,      \* history: a reset/foreign write hit the row since this gate call read it
    credit,     \* history: per row, notes_used as counted from gate successes
    sweep,      \* history: the call or pair of calls that ran with no step of another in between
    calls       \* history: the calls SpecLimiter, SpecToken and SpecStats make on a component directly

vars == <<licenses, requests, now, pc, call, loc, ev, stale, credit, sweep, calls>>

\* ------------------------------------------------------------------ helpers
Min(S) == CHOOSE x \in S : \A y \in S : x <= y

NoCall == [op |-> "none", user_id |-> "-", email |-> "-", plan_type |-> "-",
           notes_limit |-> 0, cust |-> "-", sub |-> "-", active |-> FALSE]

\* id, used: the row a query returned and its notes_used; ids: the rows of a
\* sweep; dirty, zero: the attributes (of the sweep: the rows whose notes_used)
\* the pending commit will write; d: what the request has charged so far; t:
\* the value of datetime.utcnow() the call has taken
NoLoc == [id |-> 0, used |-> 0, ids |-> {}, d |-> 0, dirty |-> {}, zero |-> {}, t |-> 0]

NoRow == [user_id |-> "-", email |-> "-", plan_type |-> "-", active |-> FALSE,
          notes_limit |-> 0, notes_used |-> 0, created_at |-> 0, expires_at |-> 0,
          stripe_customer_id |-> "-", stripe_subscription_id |-> "-"]

\* what an upsert found in the row it overwrites
NoWas == [plan_type |-> "-", notes_limit |-> 0, stripe_subscription_id |-> "-"]

Was(row) == [plan_type |-> row.plan_type, notes_limit |-> row.notes_limit,
             stripe_subscription_id |-> row.stripe_subscription_id]

NoEv == [step |-> "-", out |-> "-", args |-> NoCall, delta |-> 0, id |-> 0,
         prev |-> NoWas, n |-> 0, clean |-> TRUE]

NoSweep == [op |-> "-", st |-> "none", by |-> "-", t |-> 0, n |-> 0, user |-> "-"]

\* the call of process p ended at step s with outcome o: d is the net change
\* its own commits made to notes_used, id the row it touched, prev what an
\* upsert found there, n a count the call returns
Ended(p, s, o, d, id, prev, n) ==
    [step |-> s, out |-> o, args |-> call[p], delta |-> d, id |-> id, prev |-> prev,
     n |-> n, clean |-> TRUE]

\* line 111 without the filter
FindByUserNoFilter(L, u) == IF Len(L) = 0 THEN 0 ELSE 1

\* db.query(License).filter(License.user_id == u).first(): 0 stands for None
FindByUser(L, u) ==
    LET S == {i \in 1..Len(L) : L[i].user_id = u}
    IN IF S = {} THEN 0 ELSE Min(S)

\* line 261 without the filter
FindBySubNoFilter(L, s) == IF Len(L) = 0 THEN 0 ELSE 1

\* db.query(License).filter(License.stripe_subscription_id == s).first()
FindBySub(L, s) ==
    LET S == {i \in 1..Len(L) : L[i].stripe_subscription_id = s}
    IN IF S = {} THEN 0 ELSE Min(S)

\* a table without the unique constraints
UniqueOKNoCheck(L, u, e) == TRUE

\* the unique=True constraints of License.user_id and License.email at INSERT
UniqueOK(L, u, e) ==
    \A i \in 1..Len(L) : L[i].user_id # u /\ L[i].email # e

\* the attributes of a loaded object that the code's assignments changed
Changed(old, new) == {f \in DOMAIN old : old[f] # new[f]}

\* db.commit() on a loaded object: the UPDATE sets the changed attributes D to
\* the object's values and leaves the row's other columns as they are now
Flush(cur, obj, D) == [f \in DOMAIN cur |-> IF f \in D THEN obj[f] ELSE cur[f]]

\* ------------------------------------------------------------------ tokens
\* create_token: the claims and an absolute expiry
create_token(u, e, p, t) ==
    [kind |-> "jwt", sub |-> u, email |-> e, plan |-> p, exp |-> t + TokenTTL]

\* line 98, jwt.decode: a token that is not one this server signed raises a
\* decode error, one past its exp claim raises ExpiredSignatureError, and
\* otherwise the payload that was encoded is returned
jwt_decode(tok, t) ==
    IF tok.kind # "jwt" THEN [out |-> "invalid_token", sub |-> "-", email |-> "-", plan |-> "-"]
    ELSE IF tok.exp < t THEN [out |-> "token_expired", sub |-> "-", email |-> "-", plan |-> "-"]
    ELSE [out |-> "claims", sub |-> tok.sub, email |-> tok.email, plan |-> tok.plan]

\* what verify_token raises for each cause of failure, and whether the raise
\* is inside the try of line 96
Raised(cause) ==
    CASE cause = "missing_token" ->
           [exc |-> "HTTPException", in_try |-> FALSE, status |-> 401,
            detail |-> "Missing authentication token"]
      [] cause = "invalid_token" ->
           [exc |-> "DecodeError", in_try |-> TRUE, status |-> 0, detail |-> "-"]
      [] cause = "token_expired" ->
           [exc |-> "ExpiredSignatureError", in_try |-> TRUE, status |-> 0, detail |-> "-"]
      [] cause = "no_license" ->
           [exc |-> "HTTPException", in_try |-> TRUE, status |-> 401,
            detail |-> "Invalid license. Please subscribe."]
      [] cause = "inactive" ->
           [exc |-> "HTTPException", in_try |-> TRUE, status |-> 403,
            detail |-> "Your license is inactive. Please renew your subscription."]
      [] cause = "quota_exhausted" ->
           [exc |-> "HTTPException", in_try |-> TRUE, status |-> 403,
            detail |-> "You have reached your monthly note generation limit. Please upgrade your plan."]

\* lines 102-106: the HTTPException of the code's own expiry check
TokenHasExpired == [status |-> 401, detail |-> "Token has expired"]

\* what the caller of verify_token gets: an exception raised inside the try
\* meets the clause except jwt.JWTError of line 143; where the jwt module has
\* no such attribute, evaluating the clause raises AttributeError, which the
\* framework answers with 500; where it has, the library's errors are turned
\* into the HTTPException of lines 144-148 and an HTTPException passes through
Response(b, cause) ==
    LET x == Raised(cause)
    IN IF ~x.in_try THEN [status |-> x.status, detail |-> x.detail]
       ELSE IF b = "JWTError_missing" THEN [status |-> 500, detail |-> "Internal Server Error"]
       ELSE IF x.exc = "HTTPException" THEN [status |-> x.status, detail |-> x.detail]
       ELSE [status |-> 401, detail |-> "Invalid authentication token"]

MissingToken == [kind |-> "missing", sub |-> "-", email |-> "-", plan |-> "-", exp |-> 0]
BadToken == [kind |-> "bad", sub |-> "-", email |-> "-", plan |-> "-", exp |-> 0]

\* ------------------------------------------------------------ history frames
\* a write that restarts the count of the rows S: in-flight gate calls on them
\* (other than the writer) now hold a value read before the restart
Restart(p, S) ==
    stale' = [q \in Procs |->
                IF q = p THEN FALSE
                ELSE IF pc[q] = "gate_commit" /\ loc[q].id \in S THEN TRUE
                ELSE stale[q]]

Init ==
    /\ licenses = <<>>
    /\ requests = [p \in Procs |-> [x \in Idents |-> <<>>]]
    /\ now = 0
    /\ pc = [p \in Procs |-> "idle"]
    /\ call = [p \in Procs |-> NoCall]
    /\ loc = [p \in Procs |-> NoLoc]
    /\ ev = NoEv
    /\ stale = [p \in Procs |-> FALSE]
    /\ credit = <<>>
    /\ sweep = NoSweep
    /\ calls = <<>>

\* ------------------------------------------------------------ create_license
\* lines 219-225 without line 222
OverwriteKeepUsage(row, c, t) ==
    [row EXCEPT !.plan_type = c.plan_type,
                !.active = TRUE,
                !.notes_limit = c.notes_limit,
                !.expires_at = t + CycleLen,
                !.stripe_customer_id = c.cust,
                !.stripe_subscription_id = c.sub]

\* lines 219-225: the attributes create_license assigns to an existing license
Overwrite(row, c, t) ==
    [row EXCEPT !.plan_type = c.plan_type,
                !.active = TRUE,
                !.notes_limit = c.notes_limit,
                !.notes_used = 0,
                !.expires_at = t + CycleLen,
                !.stripe_customer_id = c.cust,
                !.stripe_subscription_id = c.sub]

\* lines 230-240: the License object of a new subscriber
NewLicense(c, t) ==
    [user_id |-> c.user_id, email |-> c.email,
     plan_type |-> c.plan_type, active |-> TRUE,
     notes_limit |-> c.notes_limit, notes_used |-> 0,
     created_at |-> 0,
     expires_at |-> t + CycleLen,
     stripe_customer_id |-> c.cust,
     stripe_subscription_id |-> c.sub]

\* line 38: the INSERT fills created_at, which the code leaves unset, with the
\* column default datetime.utcnow
Insert(obj, t) == [obj EXCEPT !.created_at = t]

\* lines 213-225: open a session, look the user up and, when a license is
\* found, assign to it: dirty are the attributes the assignments changed
CreateBegin(p, u, e, pl, lim, cu, su) ==
    /\ pc[p] = "idle"
    /\ pc' = [pc EXCEPT ![p] = "create_commit"]
    /\ call' = [call EXCEPT ![p] =
                  [op |-> "create", user_id |-> u, email |-> e, plan_type |-> pl,
                   notes_limit |-> lim, cust |-> cu, sub |-> su, active |-> TRUE]]
    /\ LET id == FindByUser(licenses, u)
           c == [NoCall EXCEPT !.plan_type = pl, !.notes_limit = lim, !.cust = cu, !.sub = su]
       IN loc' = [loc EXCEPT ![p] =
                    [NoLoc EXCEPT !.id = id, !.t = now,
                                  !.dirty = IF id = 0 THEN {}
                                            ELSE Changed(licenses[id], Overwrite(licenses[id], c, now))]]
    /\ ev' = NoEv
    /\ sweep' = IF sweep.op = "create" /\ sweep.st = "done1" /\ sweep.user = u
                THEN [sweep EXCEPT !.st = "running2", !.by = p]
                ELSE [NoSweep EXCEPT !.op = "create", !.st = "running1", !.by = p, !.user = u]
    /\ UNCHANGED <<licenses, requests, now, stale, credit, calls>>

\* lines 217-227 (update in place) and 229-244 (insert), with the commit; the
\* INSERT of a user_id or email that is already there raises IntegrityError
CreateCommit(p) ==
    /\ pc[p] = "create_commit"
    /\ LET c == call[p]
           id == loc[p].id
       IN IF id # 0
          THEN /\ licenses' = [licenses EXCEPT ![id] = Flush(@, Overwrite(@, c, loc[p].t), loc[p].dirty)]
               /\ credit' = [credit EXCEPT ![id] = licenses'[id].notes_used]
               /\ Restart(p, {id})
               /\ ev' = Ended(p, "create_commit", "updated", 0, id, Was(licenses[id]), 0)
          ELSE IF UniqueOK(licenses, c.user_id, c.email)
          THEN /\ licenses' = Append(licenses, Insert(NewLicense(c, loc[p].t), now))
               /\ credit' = Append(credit, 0)
               /\ ev' = Ended(p, "create_commit", "inserted", 0, Len(licenses) + 1, NoWas, 0)
               /\ UNCHANGED stale
          ELSE /\ ev' = Ended(p, "create_commit", "integrity_error", 0, 0, NoWas, 0)
               /\ UNCHANGED <<licenses, credit, stale>>
    /\ pc' = [pc EXCEPT ![p] = "idle"]
    /\ call' = [call EXCEPT ![p] = NoCall]
    /\ loc' = [loc EXCEPT ![p] = NoLoc]
    /\ sweep' = IF sweep.by = p /\ sweep.op = "create" /\ sweep.st = "running1"
                   /\ (loc[p].id # 0 \/ UniqueOK(licenses, call[p].user_id, call[p].email))
                THEN [sweep EXCEPT !.st = "done1"]
                ELSE IF sweep.by = p /\ sweep.op = "create" /\ sweep.st = "running2"
                THEN [sweep EXCEPT !.st = "done2"]
                ELSE NoSweep
    /\ UNCHANGED <<requests, now, calls>>

\* ------------------------------------------------------ update_license_status
\* lines 259-262, and 266 when no row matches
StatusBegin(p, s, a) ==
    /\ pc[p] = "idle"
    /\ LET id == FindBySub(licenses, s)
           c == [NoCall EXCEPT !.op = "status", !.sub = s, !.active = a]
       IN IF id = 0
          THEN /\ ev' = [Ended(p, "status_begin", "not_found", 0, 0, NoWas, 0) EXCEPT !.args = c]
               /\ sweep' = NoSweep
               /\ UNCHANGED <<pc, call, loc>>
          ELSE /\ pc' = [pc EXCEPT ![p] = "status_commit"]
               /\ call' = [call EXCEPT ![p] = c]
               /\ loc' = [loc EXCEPT ![p] =
                            [NoLoc EXCEPT !.id = id,
                                          !.dirty = Changed(licenses[id], [licenses[id] EXCEPT !.active = a])]]
               /\ ev' = NoEv
               /\ sweep' = [NoSweep EXCEPT !.op = "status", !.st = "running1", !.by = p]
    /\ UNCHANGED <<licenses, requests, now, stale, credit, calls>>

\* lines 263-266
StatusCommit(p) ==
    /\ pc[p] = "status_commit"
    /\ licenses' = [licenses EXCEPT ![loc[p].id] =
                        Flush(@, [@ EXCEPT !.active = call[p].active], loc[p].dirty)]
    /\ pc' = [pc EXCEPT ![p] = "idle"]
    /\ call' = [call EXCEPT ![p] = NoCall]
    /\ loc' = [loc EXCEPT ![p] = NoLoc]
    /\ ev' = Ended(p, "status_commit", "status_set", 0, loc[p].id, NoWas, 0)
    /\ sweep' = IF sweep.by = p /\ sweep.op = "status" /\ sweep.st = "running1"
                THEN [sweep EXCEPT !.st = "done1"]
                ELSE NoSweep
    /\ UNCHANGED <<requests, now, stale, credit, calls>>

\* --------------------------------------------------------- reset_monthly_usage
\* lines 282-285 without the filter of line 283
ExpiredAnyStatus(L, t) == {i \in 1..Len(L) : L[i].expires_at < t}

\* lines 282-285: the active licenses whose cycle has ended
Expired(L, t) == {i \in 1..Len(L) : L[i].active /\ L[i].expires_at < t}

\* lines 288-289 without line 290
ResetRowKeepExpiry(row, t) == [row EXCEPT !.notes_used = 0]

\* lines 288-290: the object of a license the query returned, after the loop
ResetRow(row, t) == [row EXCEPT !.notes_used = 0, !.expires_at = t + CycleLen]

\* line 296: the UPDATEs of the commit, for the rows S the query returned, of
\* which the rows Z were loaded with a notes_used other than 0; expires_at was
\* loaded below t, so its assignment is a change for every row of S
ResetRows(L, S, Z, t) ==
    [i \in 1..Len(L) |->
        IF i \in S
        THEN Flush(L[i], ResetRow(L[i], t),
                   {"expires_at"} \cup (IF i \in Z THEN {"notes_used"} ELSE {}))
        ELSE L[i]]

\* lines 275-285
ReconBegin(p) ==
    /\ pc[p] = "idle"
    /\ pc' = [pc EXCEPT ![p] = "recon_commit"]
    /\ call' = [call EXCEPT ![p] = [NoCall EXCEPT !.op = "recon"]]
    /\ loc' = [loc EXCEPT ![p] =
                 [NoLoc EXCEPT !.ids = Expired(licenses, now), !.t = now,
                               !.zero = {i \in Expired(licenses, now) : licenses[i].notes_used # 0}]]
    /\ ev' = NoEv
    /\ sweep' = IF sweep.op = "recon" /\ sweep.st = "done1" /\ sweep.t = now
                THEN [sweep EXCEPT !.st = "running2", !.by = p]
                ELSE [NoSweep EXCEPT !.op = "recon", !.st = "running1", !.by = p, !.t = now,
                                     !.n = Cardinality(Expired(licenses, now))]
    /\ UNCHANGED <<licenses, requests, now, stale, credit, calls>>

\* lines 288-299
ReconCommit(p) ==
    /\ pc[p] = "recon_commit"
    /\ licenses' = ResetRows(licenses, loc[p].ids, loc[p].zero, loc[p].t)
    /\ credit' = [i \in 1..Len(credit) |->
                    IF i \in loc[p].ids THEN licenses'[i].notes_used ELSE credit[i]]
    /\ Restart(p, loc[p].ids)
    /\ pc' = [pc EXCEPT ![p] = "idle"]
    /\ call' = [call EXCEPT ![p] = NoCall]
    /\ loc' = [loc EXCEPT ![p] = NoLoc]
    /\ ev' = Ended(p, "recon_commit", "reset", 0, 0, NoWas, Cardinality(loc[p].ids))
    /\ sweep' = IF sweep.by = p /\ sweep.op = "recon" /\ sweep.st = "running1"
                THEN [sweep EXCEPT !.st = "done1"]
                ELSE IF sweep.by = p /\ sweep.op = "recon" /\ sweep.st = "running2"
                THEN [sweep EXCEPT !.st = "done2"]
                ELSE NoSweep
    /\ UNCHANGED <<requests, now, calls>>

\* lines 300-302 with the rollback left out: what the session held is written
RolledBackNot(L, S, Z, t) == ResetRows(L, S, Z, t)

\* lines 300-302: db.rollback() discards what the loop assigned
RolledBack(L, S, Z, t) == L

\* lines 288-296 raise (the loop at license i of the result, or the commit
\* when i = 0), and lines 300-302: rollback, and the exception goes to the caller
ReconFail(p, i) ==
    /\ pc[p] = "recon_commit"
    /\ i \in loc[p].ids \cup {0}
    /\ licenses' = RolledBack(licenses, loc[p].ids, loc[p].zero, loc[p].t)
    /\ pc' = [pc EXCEPT ![p] = "idle"]
    /\ call' = [call EXCEPT ![p] = NoCall]
    /\ loc' = [loc EXCEPT ![p] = NoLoc]
    /\ ev' = Ended(p, "recon_fail", "raised", 0, i, NoWas, Cardinality(loc[p].ids))
    /\ sweep' = NoSweep
    /\ UNCHANGED <<requests, now, stale, credit, calls>>

\* ---------------------------------------------------------------- verify_token
\* lines 85-132 without the check of lines 120-125
GateOutcomeNoActive(tok, t, L) ==
    IF tok.kind = "missing" THEN "missing_token"
    ELSE IF jwt_decode(tok, t).out # "claims" THEN jwt_decode(tok, t).out
    ELSE LET id == FindByUser(L, tok.sub)
         IN IF id = 0 THEN "no_license"
            ELSE IF L[id].notes_used >= L[id].notes_limit THEN "quota_exhausted"
            ELSE "pass"

\* a gate that also refuses a license whose expires_at has passed
GateOutcomeExpiry(tok, t, L) ==
    IF tok.kind = "missing" THEN "missing_token"
    ELSE IF jwt_decode(tok, t).out # "claims" THEN jwt_decode(tok, t).out
    ELSE LET id == FindByUser(L, tok.sub)
         IN IF id = 0 THEN "no_license"
            ELSE IF ~L[id].active \/ L[id].expires_at < t THEN "inactive"
            ELSE IF L[id].notes_used >= L[id].notes_limit THEN "quota_exhausted"
            ELSE "pass"

\* lines 85-132: the checks in the order the code makes them
GateOutcome(tok, t, L) ==
    IF tok.kind = "missing" THEN "missing_token"
    ELSE IF jwt_decode(tok, t).out # "claims" THEN jwt_decode(tok, t).out
    ELSE LET id == FindByUser(L, tok.sub)
         IN IF id = 0 THEN "no_license"
            ELSE IF ~L[id].active THEN "inactive"
            ELSE IF L[id].notes_used >= L[id].notes_limit THEN "quota_exhausted"
            ELSE "pass"

\* a request arrives at either endpoint (main.py lines 92 / 129) and verify_token
\* runs to line 132; which endpoint it is matters only once the gate has returned
RequestBegin(p, tok) ==
    /\ pc[p] = "idle"
    /\ LET g == GateOutcome(tok, now, licenses)
           id == FindByUser(licenses, tok.sub)
           c == [NoCall EXCEPT !.op = "request", !.user_id = tok.sub]
       IN IF g = "pass"
          THEN /\ pc' = [pc EXCEPT ![p] = "gate_commit"]
               /\ call' = [call EXCEPT ![p] = c]
               /\ loc' = [loc EXCEPT ![p] = [NoLoc EXCEPT !.id = id, !.used = licenses[id].notes_used]]
               /\ ev' = NoEv
          ELSE /\ ev' = [Ended(p, "request_begin", g, 0, id, NoWas, 0) EXCEPT !.args = c]
               /\ UNCHANGED <<pc, call, loc>>
    /\ sweep' = NoSweep
    /\ UNCHANGED <<licenses, requests, now, stale, credit, calls>>

\* ------------------------------------------------------ RateLimiter.allow_request
\* lines 179-182 with a filter that keeps everything
PruneNothing(ts, t) == ts

\* lines 179-182 with a filter that keeps nothing
PruneEverything(ts, t) == <<>>

\* lines 179-182 with <= in place of <
PruneClosed(ts, t) == SelectSeq(ts, LAMBDA r : t - r <= Window)

\* lines 179-182
Prune(ts, t) == SelectSeq(ts, LAMBDA r : t - r < Window)

\* lines 184-189 with the append outside the if
AllowRequestAlwaysRecord(ts, t) ==
    LET kept == Prune(ts, t)
    IN <<Len(kept) < Limit, Append(kept, t)>>

\* lines 184-189 with <= in place of <
AllowRequestOneMore(ts, t) ==
    LET kept == Prune(ts, t)
    IN IF Len(kept) <= Limit THEN <<TRUE, Append(kept, t)>> ELSE <<FALSE, kept>>

\* lines 184-189 with the append of line 186 lost
AllowRequestNoRecord(ts, t) ==
    LET kept == Prune(ts, t)
    IN <<Len(kept) < Limit, kept>>

\* lines 184-189: <<allowed, the identifier's list afterwards>>
AllowRequest(ts, t) ==
    LET kept == Prune(ts, t)
    IN IF Len(kept) < Limit THEN <<TRUE, Append(kept, t)>> ELSE <<FALSE, kept>>

\* allow_request with one list for all identifiers in place of requests[identifier]
AllowOneList(p, x) ==
    /\ pc[p] = "idle"
    /\ Len(calls) < MaxCalls
    /\ LET lim == AllowRequest(requests[p][x], now)
       IN /\ requests' = [requests EXCEPT ![p] = [y \in DOMAIN requests[p] |-> lim[2]]]
          /\ calls' = Append(calls, [p |-> p, x |-> x, t |-> now, ok |-> lim[1]])
          /\ ev' = [NoEv EXCEPT !.step = "allow_request",
                                !.out = IF lim[1] THEN "allowed" ELSE "denied",
                                !.args.user_id = x]
    /\ sweep' = NoSweep
    /\ UNCHANGED <<licenses, now, pc, call, loc, stale, credit>>

\* main.py lines 95 / 132: rate_limiter.allow_request(x) called in process p,
\* taken on its own
Allow(p, x) ==
    /\ pc[p] = "idle"
    /\ Len(calls) < MaxCalls
    /\ LET lim == AllowRequest(requests[p][x], now)
       IN /\ requests' = [requests EXCEPT ![p][x] = lim[2]]
          /\ calls' = Append(calls, [p |-> p, x |-> x, t |-> now, ok |-> lim[1]])
          /\ ev' = [NoEv EXCEPT !.step = "allow_request",
                                !.out = IF lim[1] THEN "allowed" ELSE "denied",
                                !.args.user_id = x]
    /\ sweep' = NoSweep
    /\ UNCHANGED <<licenses, now, pc, call, loc, stale, credit>>

\* ------------------------------------------------------- the gate's commit
\* an UPDATE that adds one more than line 135 does
ChargeTwice(L, id, v) == [L EXCEPT ![id].notes_used = v + 1]

\* lines 135-136: the UPDATE the commit flushes for license.notes_used += 1,
\* v being the value of the loaded object after the assignment
Charge(L, id, v) == [L EXCEPT ![id].notes_used = v]

\* verify_token lines 134-141 (license.notes_used += 1 on the loaded object, the
\* commit, the payload returned), then the endpoint, which runs on without a
\* suspension that touches shared state: the rate limiter (main.py lines 95-99 /
\* 132-136), the content type check (147-151) and the external calls, which
\* return (r = "made") or raise; kind is the endpoint the request came to
GateCommit(p, kind, r) ==
    /\ pc[p] = "gate_commit"
    /\ kind = "text" => r # "bad_file_400"
    /\ LET id == loc[p].id
           v == loc[p].used + 1
           d == v - licenses[id].notes_used
           x == call[p].user_id
           lim == AllowRequest(requests[p][x], now)
           o == IF ~lim[1] THEN "rate_limited"
                ELSE IF r = "made" THEN "note" ELSE r
       IN /\ licenses' = Charge(licenses, id, v)
          /\ IF stale[p]
             THEN /\ credit' = [credit EXCEPT ![id] = v]
                  /\ Restart(p, {id})
             ELSE /\ credit' = [credit EXCEPT ![id] = @ + 1]
                  /\ UNCHANGED stale
          /\ requests' = [requests EXCEPT ![p][x] = lim[2]]
          /\ IF o = "note" /\ kind = "audio"
             THEN /\ pc' = [pc EXCEPT ![p] = "audio_query"]
                  /\ loc' = [loc EXCEPT ![p] = [NoLoc EXCEPT !.d = d]]
                  /\ call' = [call EXCEPT ![p].op = kind]
                  /\ ev' = [Ended(p, "gate_commit", "gate_ok", d, id, NoWas, credit[id])
                               EXCEPT !.args.op = kind, !.clean = ~stale[p]]
             ELSE /\ pc' = [pc EXCEPT ![p] = "idle"]
                  /\ loc' = [loc EXCEPT ![p] = NoLoc]
                  /\ call' = [call EXCEPT ![p] = NoCall]
                  /\ ev' = [Ended(p, "gate_commit", o, d, id, NoWas, credit[id])
                               EXCEPT !.args.op = kind, !.clean = ~stale[p]]
    /\ sweep' = NoSweep
    /\ UNCHANGED <<now, calls>>

\* -------------------------------------------------- generate_note_from_audio
\* lines 188-192: after the note is made, the license is looked up again
AudioBegin(p) ==
    /\ pc[p] = "audio_query"
    /\ LET id == FindByUser(licenses, call[p].user_id)
       IN IF id # 0
          THEN /\ pc' = [pc EXCEPT ![p] = "audio_commit"]
               /\ loc' = [loc EXCEPT ![p] = [@ EXCEPT !.id = id, !.used = licenses[id].notes_used]]
               /\ ev' = NoEv
               /\ UNCHANGED call
          ELSE /\ pc' = [pc EXCEPT ![p] = "idle"]
               /\ loc' = [loc EXCEPT ![p] = NoLoc]
               /\ call' = [call EXCEPT ![p] = NoCall]
               /\ ev' = Ended(p, "audio_begin", "note", loc[p].d, 0, NoWas, 0)
    /\ sweep' = NoSweep
    /\ UNCHANGED <<licenses, requests, now, stale, credit, calls>>

\* lines 193-198: the second increment, its commit, and the note is returned
AudioCommit(p) ==
    /\ pc[p] = "audio_commit"
    /\ LET id == loc[p].id
           v == loc[p].used + 1
       IN /\ licenses' = Charge(licenses, id, v)
          /\ credit' = [credit EXCEPT ![id] = v]
          /\ Restart(p, {id})
          /\ ev' = Ended(p, "audio_commit", "note", loc[p].d + v - licenses[id].notes_used,
                         id, NoWas, 0)
    /\ pc' = [pc EXCEPT ![p] = "idle"]
    /\ call' = [call EXCEPT ![p] = NoCall]
    /\ loc' = [loc EXCEPT ![p] = NoLoc]
    /\ sweep' = NoSweep
    /\ UNCHANGED <<requests, now, calls>>

\* ------------------------------------------------------------------- clock
InTransaction(p) ==
    pc[p] \in {"create_commit", "status_commit", "recon_commit", "gate_commit", "audio_commit"}

Tick ==
    /\ now < MaxTime
    /\ \A p \in Procs : ~InTransaction(p)
    /\ now' = now + 1
    /\ ev' = NoEv
    /\ sweep' = NoSweep
    /\ UNCHANGED <<licenses, requests, pc, call, loc, stale, credit, calls>>

\* the clock as the calls of different processes see it: it also advances
\* while a call is between its utcnow() and its commit, by less than a billing
\* cycle (no call stays open for 30 days)
TickDrift ==
    /\ now < MaxTime + CycleLen
    /\ \A p \in Procs :
          pc[p] \in {"create_commit", "recon_commit"} => now + 1 - loc[p].t <= CycleLen
    /\ now' = now + 1
    /\ ev' = NoEv
    /\ sweep' = NoSweep
    /\ UNCHANGED <<licenses, requests, pc, call, loc, stale, credit, calls>>

\* the tokens a caller can present at time t: none, a forged one, the oldest
\* one issued and one issued just now
Tokens(t) ==
    {MissingToken, BadToken}
        \cup {create_token(u, "e1", "starter", t0) : u \in Users, t0 \in {0, t}}

Next ==
    \/ \E p \in Procs, u \in Users, e \in Emails, x \in Purchases :
          CreateBegin(p, u, e, x[1], x[2], x[3], x[4])
    \/ \E p \in Procs : CreateCommit(p)
    \/ \E p \in Procs, s \in SubIds, a \in BOOLEAN : StatusBegin(p, s, a)
    \/ \E p \in Procs : StatusCommit(p)
    \/ \E p \in Procs : ReconBegin(p)
    \/ \E p \in Procs : ReconCommit(p)
    \/ \E p \in Procs, tok \in Tokens(now) : RequestBegin(p, tok)
    \/ \E p \in Procs, k \in {"text", "audio"}, r \in {"made", "bad_file_400", "error_500"} :
          GateCommit(p, k, r)
    \/ \E p \in Procs : AudioBegin(p)
    \/ \E p \in Procs : AudioCommit(p)
    \/ Tick

Spec == Init /\ [][Next]_vars

\* create_token(u, e, pl) called at t0 and the token decoded now
Present(u, e, pl, t0) ==
    /\ Len(calls) < MaxCalls
    /\ LET res == jwt_decode(create_token(u, e, pl, t0), now)
       IN /\ calls' = Append(calls, [u |-> u, e |-> e, pl |-> pl, t0 |-> t0, t |-> now, res |-> res])
          /\ ev' = [NoEv EXCEPT !.step = "decode", !.out = res.out]
    /\ sweep' = NoSweep
    /\ UNCHANGED <<licenses, requests, now, pc, call, loc, stale, credit>>

\* tokens issued and decoded at all times
NextToken ==
    \/ \E u \in TokenUsers, e \in TokenEmails, pl \in TokenPlans, t0 \in {0, now} :
          Present(u, e, pl, t0)
    \/ Tick

SpecToken == Init /\ [][NextToken]_vars

\* the rate limiters of the processes, called directly
NextLimiter ==
    \/ \E p \in Procs, x \in Idents : Allow(p, x)
    \/ Tick

SpecLimiter == Init /\ [][NextLimiter]_vars

\* a store that holds the license of one subscriber part way through a cycle
InitCycle ==
    /\ \E u \in Users, e \in Emails, x \in Purchases, k \in 0..MaxLimit :
          /\ k <= x[2]
          /\ licenses = <<[Insert(NewLicense([NoCall EXCEPT !.user_id = u, !.email = e,
                                                            !.plan_type = x[1], !.notes_limit = x[2],
                                                            !.cust = x[3], !.sub = x[4]], 0), 0)
                              EXCEPT !.notes_used = k]>>
          /\ credit = <<k>>
    /\ requests = [p \in Procs |-> [x \in Idents |-> <<>>]]
    /\ now = 0
    /\ pc = [p \in Procs |-> "idle"]
    /\ call = [p \in Procs |-> NoCall]
    /\ loc = [p \in Procs |-> NoLoc]
    /\ ev = NoEv
    /\ stale = [p \in Procs |-> FALSE]
    /\ sweep = NoSweep
    /\ calls = <<>>

\* requests to the text endpoint and reconciliation runs, with no upsert
NextCycle ==
    \/ \E p \in Procs, tok \in Tokens(now) : RequestBegin(p, tok)
    \/ \E p \in Procs, r \in {"made", "error_500"} : GateCommit(p, "text", r)
    \/ \E p \in Procs : ReconBegin(p)
    \/ \E p \in Procs : ReconCommit(p)
    \/ Tick

SpecCycle == InitCycle /\ [][NextCycle]_vars

\* the subscribers of a store with two licenses
Subscribers == <<[user_id |-> "u1", email |-> "e1"], [user_id |-> "u2", email |-> "e2"]>>

\* the license create_license inserted at time 0 for subscriber s and purchase
\* x, after update_license_status(a) and k successful requests
RowOf(s, x, a, k) ==
    [Insert(NewLicense([NoCall EXCEPT !.user_id = s.user_id, !.email = s.email,
                                      !.plan_type = x[1], !.notes_limit = x[2],
                                      !.cust = x[3], !.sub = x[4]], 0), 0)
        EXCEPT !.active = a, !.notes_used = k]

\* a store that holds the licenses of two subscribers
InitTwo ==
    /\ \E x1, x2 \in Purchases, a1, a2 \in BOOLEAN, k1, k2 \in 0..MaxLimit :
          /\ x1 # x2 /\ k1 <= x1[2] /\ k2 <= x2[2]
          /\ licenses = <<RowOf(Subscribers[1], x1, a1, k1), RowOf(Subscribers[2], x2, a2, k2)>>
          /\ credit = <<k1, k2>>
    /\ requests = [p \in Procs |-> [x \in Idents \cup {"u2"} |-> <<>>]]
    /\ now = 0
    /\ pc = [p \in Procs |-> "idle"]
    /\ call = [p \in Procs |-> NoCall]
    /\ loc = [p \in Procs |-> NoLoc]
    /\ ev = NoEv
    /\ stale = [p \in Procs |-> FALSE]
    /\ sweep = NoSweep
    /\ calls = <<>>

\* the Authorization headers of the requests of two subscribers
TokensTwo(t) ==
    {MissingToken, BadToken}
        \cup {create_token(Subscribers[i].user_id, Subscribers[i].email, "starter", t0) :
                 i \in 1..Len(Subscribers), t0 \in {0, t}}

\* requests of two subscribers to the text endpoint
NextPair ==
    \/ \E p \in Procs, tok \in TokensTwo(now) : RequestBegin(p, tok)
    \/ \E p \in Procs, r \in {"made", "error_500"} : GateCommit(p, "text", r)
    \/ Tick

SpecPair == InitTwo /\ [][NextPair]_vars

\* ------------------------------------------------------ get_usage_statistics
\* line 333, str.lower() on the plan names that can be stored
lower(s) ==
    CASE s = "Starter" -> "starter"
      [] s = "Pro" -> "pro"
      [] s = "Enterprise" -> "enterprise"
      [] OTHER -> s

\* lines 315-323: the dict the function starts from
NoStats ==
    [total_users |-> 0, total_notes_used |-> 0,
     plan_breakdown |-> [pl \in {"starter", "pro", "enterprise"} |->
                            [users |-> 0, notes_used |-> 0, notes_limit |-> 0]]]

\* a query that returns every license
AllLicenses(L) == L

\* line 326: the rows of the query, in the order of the table
ActiveLicenses(L) == SelectSeq(L, LAMBDA row : row.active)

\* lines 330-337: one pass of the loop body
Count(stats, row) ==
    LET s1 == [stats EXCEPT !.total_users = @ + 1,
                            !.total_notes_used = @ + row.notes_used]
        plan == lower(row.plan_type)
    IN IF plan \in DOMAIN s1.plan_breakdown
       THEN [s1 EXCEPT !.plan_breakdown[plan].users = @ + 1,
                       !.plan_breakdown[plan].notes_used = @ + row.notes_used,
                       !.plan_breakdown[plan].notes_limit = @ + row.notes_limit]
       ELSE s1

\* lines 329-337: the loop over the rows
RECURSIVE Tally(_, _)
Tally(rows, stats) ==
    IF rows = <<>> THEN stats ELSE Tally(Tail(rows), Count(stats, Head(rows)))

\* lines 306-341: the session makes one SELECT and is closed without a commit
get_usage_statistics(p) ==
    /\ pc[p] = "idle"
    /\ calls' = <<Tally(ActiveLicenses(licenses), NoStats)>>
    /\ ev' = [NoEv EXCEPT !.step = "usage_stats", !.out = "stats"]
    /\ sweep' = NoSweep
    /\ UNCHANGED <<licenses, requests, now, pc, call, loc, stale, credit>>

\* statistics taken of the licenses of two subscribers while their
\* subscriptions are switched on and off
NextStats ==
    \/ \E p \in Procs : get_usage_statistics(p)
    \/ \E p \in Procs, s \in SubIds, a \in BOOLEAN : StatusBegin(p, s, a)
    \/ \E p \in Procs : StatusCommit(p)

SpecStats == InitTwo /\ [][NextStats]_vars

\* reconciliation runs that commit or fail
NextSweep ==
    \/ \E p \in Procs : ReconBegin(p)
    \/ \E p \in Procs : ReconCommit(p)
    \/ \E p \in Procs, i \in 0..Len(licenses) : ReconFail(p, i)
    \/ Tick

SpecSweep == InitTwo /\ [][NextSweep]_vars

\* upserts and reconciliations of two processes, with the clock advancing
\* between the statements of a call
NextDrift ==
    \/ \E p \in Procs, u \in Users, e \in Emails, x \in Purchases :
          CreateBegin(p, u, e, x[1], x[2], x[3], x[4])
    \/ \E p \in Procs : CreateCommit(p)
    \/ \E p \in Procs : ReconBegin(p)
    \/ \E p \in Procs : ReconCommit(p)
    \/ TickDrift

SpecDrift == Init /\ [][NextDrift]_vars

\* ------------------------------------------------------------------ claims
\* the step just taken committed a gate call that no reset or foreign write
\* overlapped: verify_token returned its payload
GateSucceeded == ev.step = "gate_commit" /\ ev.clean

\* C1: of N concurrent gate calls for one user with k units of quota left,
\* exactly k succeed: a call succeeds only while fewer than notes_limit units
\* are used up by the successes counted so far (ev.n), and a call fails with
\* quota_exhausted only once they are used up
C1_ExactlyKSucceed ==
    /\ GateSucceeded => ev.n < licenses[ev.id].notes_limit
    /\ (ev.step = "request_begin" /\ ev.out = "quota_exhausted")
          => credit[ev.id] >= licenses[ev.id].notes_limit

\* C2: no under-charge: with no upsert or reconcile in between, the stored
\* notes_used is its initial value plus the number of gate calls that succeeded
C2_NoLostIncrement ==
    \A i \in 1..Len(licenses) : licenses[i].notes_used = credit[i]

\* C3: every license satisfies notes_used <= notes_limit in every reachable state
C3_UsedWithinLimit ==
    \A i \in 1..Len(licenses) : licenses[i].notes_used <= licenses[i].notes_limit

\* a gate call of process p passes every check of verify_token in this step
GateGranted(p) == pc[p] = "idle" /\ pc'[p] = "gate_commit"

\* C4: a gate call never succeeds for a user whose license is inactive when the
\* call looks it up, whatever notes_used and notes_limit are: a call passes the
\* checks only on a license that is active at that moment, and only a call that
\* passed them reaches the commit and returns the payload
C4_InactiveNeverGranted ==
    [][\A p \in Procs :
          /\ GateGranted(p) =>
                LET id == FindByUser(licenses, call'[p].user_id)
                IN id # 0 /\ licenses[id].active
          /\ pc'[p] = "gate_commit" => (pc[p] = "gate_commit" \/ GateGranted(p))]_vars

C4_Witness ==
    /\ ev.step = "request_begin" /\ ev.out = "inactive"
    /\ licenses[ev.id].notes_used < licenses[ev.id].notes_limit

\* C5: a request rejected by the rate limiter (429) does not consume quota
C5_RateLimitedNotCharged ==
    ev.out = "rate_limited" => ev.delta = 0

\* C6: every successfully completed note-generation request, text or audio,
\* increases the caller's notes_used by exactly 1
C6_ChargedExactlyOnce ==
    ev.out = "note" => ev.delta = 1

\* C7: a gate call that ends in a failure outcome leaves the license store
\* unchanged, as does the part of a successful call before its commit; the only
\* write the gate makes is notes_used := (the value it read) + 1 on the row of
\* the token's subject, on the success path
C7_GateFrame ==
    [][/\ ev'.step = "request_begin" => licenses' = licenses
       /\ \A p \in Procs :
            /\ GateGranted(p) => licenses' = licenses
            /\ (pc[p] = "gate_commit" /\ pc'[p] # "gate_commit") =>
                  /\ licenses[loc[p].id].user_id = call[p].user_id
                  /\ licenses' = [licenses EXCEPT ![loc[p].id].notes_used = loc[p].used + 1]]_vars

C7_Witness ==
    /\ ev.step = "request_begin" /\ ev.out = "quota_exhausted"
    /\ licenses[ev.id].notes_used > 0

\* at most one license per user_id
OnePerUser(L) ==
    \A i, j \in 1..Len(L) : L[i].user_id = L[j].user_id => i = j

\* C8: after any interleaving of upserts, concurrent ones for one unknown
\* user_id included, the store holds at most one license per user_id; an upsert
\* for an existing user_id updates that record in place and adds no record
C8_OneLicensePerUser ==
    [][/\ OnePerUser(licenses')
       /\ Len(licenses') > Len(licenses) =>
             /\ Len(licenses') = Len(licenses) + 1
             /\ FindByUser(licenses, licenses'[Len(licenses')].user_id) = 0
       /\ ev'.out = "updated" =>
             /\ Len(licenses') = Len(licenses)
             /\ licenses'[ev'.id].user_id = ev'.args.user_id
             /\ \A i \in 1..Len(licenses) : i # ev'.id => licenses'[i] = licenses[i]]_vars

C8_Witness ==
    /\ ev.step = "create_commit" /\ ev.out = "integrity_error"
    /\ Cardinality({i \in 1..Len(licenses) : licenses[i].user_id = ev.args.user_id}) = 1

\* C9: after each of two upserts made in a row for one user_id, with no step
\* of another call in between, exactly one record exists for that user, and it
\* has that call's plan_type, notes_limit and external ids, active = true and
\* notes_used = 0, whatever notes_used and active were before
C9_UpsertOverwrites ==
    (sweep.op = "create" /\ sweep.st \in {"done1", "done2"}) =>
        /\ Cardinality({i \in 1..Len(licenses) : licenses[i].user_id = ev.args.user_id}) = 1
        /\ licenses[ev.id].user_id = ev.args.user_id
        /\ licenses[ev.id].plan_type = ev.args.plan_type
        /\ licenses[ev.id].notes_limit = ev.args.notes_limit
        /\ licenses[ev.id].stripe_customer_id = ev.args.cust
        /\ licenses[ev.id].stripe_subscription_id = ev.args.sub
        /\ licenses[ev.id].active
        /\ licenses[ev.id].notes_used = 0

C9_Witness ==
    /\ sweep.op = "create" /\ sweep.st = "done2"
    /\ ev.out = "updated"
    /\ ev.prev.plan_type # ev.args.plan_type
    /\ ev.prev.notes_limit # ev.args.notes_limit
    /\ ev.prev.stripe_subscription_id # ev.args.sub

\* C10: a second reconciliation at the same clock value, with nothing in
\* between, selects no record, returns 0 and leaves the store as the first left it
C10_SecondSweepIdle ==
    [][/\ (sweep'.op = "recon" /\ sweep'.st = "running2") => loc'[sweep'.by].ids = {}
       /\ (sweep'.op = "recon" /\ sweep'.st = "done2") =>
             /\ licenses' = licenses
             /\ ev'.n = 0]_vars

C10_Witness ==
    /\ sweep.op = "recon" /\ sweep.st = "done2"
    /\ sweep.n >= 1

\* this step is the commit of a reconciliation that ran with no step of
\* another call between its query and its commit
ReconAlone == sweep'.op = "recon" /\ sweep'.st \in {"done1", "done2"}

C12_ExpiryNeverBack ==
    [][/\ \A i \in 1..Len(licenses') : licenses'[i].expires_at >= licenses'[i].created_at
       /\ ev'.step = "recon_commit" =>
             \A i \in 1..Len(licenses) : licenses'[i].expires_at >= licenses[i].expires_at]_vars

\* the allow_request calls made for identifier x on the limiter of process p
CallsOf(p, x) == SelectSeq(calls, LAMBDA c : c.p = p /\ c.x = x)

\* C13: for an identifier with no recorded requests, the first Limit calls made
\* within the window all return true, every further call within the same
\* window returns false, and a call made more than Window after all earlier
\* calls returns true again
C13_WindowScenario ==
    \A p \in Procs, x \in Idents :
       LET h == CallsOf(p, x)
       IN \A i \in 1..Len(h) :
             /\ (i <= Limit /\ h[i].t - h[1].t < Window) => h[i].ok
             /\ (i > Limit /\ h[i].t - h[1].t < Window) => ~h[i].ok
             /\ (\A j \in 1..(i - 1) : h[i].t - h[j].t > Window) => h[i].ok

C13_Witness ==
    \E p \in Procs, x \in Idents :
       LET h == CallsOf(p, x)
       IN /\ Len(h) >= Limit + 2
          /\ h[Limit + 1].t - h[1].t < Window /\ ~h[Limit + 1].ok
          /\ h[Len(h)].t - h[Limit + 1].t > Window /\ h[Len(h)].ok

\* C14: after every call of allow_request, every identifier has at most Limit
\* timestamps stored, and each stored timestamp is a time at which a request
\* of that identifier was allowed
C14_StoredBounded ==
    \A p \in Procs, x \in Idents :
       /\ Len(requests[p][x]) <= Limit
       /\ \A k \in 1..Len(requests[p][x]) :
             \E i \in 1..Len(calls) :
                /\ calls[i].p = p /\ calls[i].x = x /\ calls[i].ok
                /\ calls[i].t = requests[p][x][k]

C14_Witness ==
    /\ ev.step = "allow_request" /\ ev.out = "allowed"
    /\ \E p \in Procs : Len(requests[p][ev.args.user_id]) = Limit /\ Len(CallsOf(p, ev.args.user_id)) > Limit

\* C15: allow_request(x) returns true and records the current time iff fewer
\* than Limit timestamps remain for x after pruning; when it returns false it
\* records nothing, so every timestamp stored afterwards was stored before
C15_RecordIffAllowed ==
    [][Len(calls') > Len(calls) =>
          LET c == calls'[Len(calls')]
              old == requests[c.p][c.x]
              kept == SelectSeq(old, LAMBDA r : now - r < Window)
          IN /\ c.ok <=> Len(kept) < Limit
             /\ c.ok => requests'[c.p][c.x] = Append(kept, now)
             /\ ~c.ok => /\ requests'[c.p][c.x] = kept
                         /\ \A k \in 1..Len(requests'[c.p][c.x]) :
                               \E j \in 1..Len(old) : old[j] = requests'[c.p][c.x][k]]_vars

C15_Witness ==
    /\ ev.step = "allow_request" /\ ev.out = "denied"
    /\ \E p \in Procs : Len(requests[p][ev.args.user_id]) = Limit

\* C16: decoding a token issued by create_token(u, e, p) before its expiry
\* yields the claims subject u, email e and plan p; decoding it after its
\* time-to-live has elapsed fails with the expired-token outcome
C16_RoundTrip ==
    \A i \in 1..Len(calls) :
       LET c == calls[i]
       IN /\ c.t < c.t0 + TokenTTL =>
                c.res = [out |-> "claims", sub |-> c.u, email |-> c.e, plan |-> c.pl]
          /\ c.t > c.t0 + TokenTTL =>
                /\ c.res.out = "token_expired"
                /\ \A b \in Builds : Response(b, c.res.out) = TokenHasExpired

\* the causes for which verify_token fails
Failures ==
    {"missing_token", "invalid_token", "token_expired", "no_license", "inactive", "quota_exhausted"}

\* C17: every failing gate call surfaces as 401 when the token is missing,
\* invalid or expired or no license exists for its subject, and as 403 when the
\* license is inactive or its quota is exhausted, each cause with a reason text
\* of its own, and never with another status
C17_StatusMapping ==
    (ev.step = "request_begin" /\ ev.out \in Failures) =>
       \A b \in Builds :
          /\ Response(b, ev.out).status =
                (IF ev.out \in {"inactive", "quota_exhausted"} THEN 403 ELSE 401)
          /\ \A o \in Failures \ {ev.out} :
                Response(b, o).detail # Response(b, ev.out).detail

\* C18: a gate call with a correctly signed but expired token fails with 401
\* and a reason distinct from the reason given for a token with a bad
\* signature or format
C18_ExpiredDistinct ==
    (ev.step = "request_begin" /\ ev.out = "token_expired") =>
       \A b \in Builds :
          /\ Response(b, "token_expired").status = 401
          /\ Response(b, "token_expired").detail # Response(b, "invalid_token").detail

\* the step ends an update_license_status call that no other call's step divided
StatusAlone == sweep'.op = "status" /\ sweep'.st = "done1"

\* the step is a gate call with a sound token by a user whose license is
\* inactive and has quota left
GateOnInactive ==
    /\ ev'.step = "request_begin"
    /\ ev'.out \notin {"missing_token", "invalid_token", "token_expired"}
    /\ ev'.id # 0
    /\ ~licenses[ev'.id].active
    /\ licenses[ev'.id].notes_used < licenses[ev'.id].notes_limit

\* C19: update_license_status(sub, a) on a store holding a license with that
\* subscription id sets the license's active flag to a and changes no other
\* field of it and no other license; once the flag is False, a gate call for the
\* user is refused with 403 and the inactive-subscription reason although
\* notes_used < notes_limit
C19_SetActiveFrame ==
    [][/\ StatusAlone =>
            /\ licenses[ev'.id].stripe_subscription_id = ev'.args.sub
            /\ licenses' = [licenses EXCEPT ![ev'.id].active = ev'.args.active]
       /\ GateOnInactive =>
            /\ ev'.out = "inactive"
            /\ \A b \in Builds :
                  Response(b, ev'.out) =
                     [status |-> 403,
                      detail |-> "Your license is inactive. Please renew your subscription."]
      ]_vars

\* C20: update_license_status with a subscription id that matches no license
\* returns no record and leaves the whole license store unchanged
C20_UnknownSubNoOp ==
    [][/\ (ev'.step = "status_begin" /\ ev'.out = "not_found") =>
            /\ licenses' = licenses
            /\ \A i \in 1..Len(licenses) :
                  licenses[i].stripe_subscription_id # ev'.args.sub
       /\ \A p \in Procs :
            (pc[p] = "idle" /\ pc'[p] = "status_commit") =>
               \E i \in 1..Len(licenses) :
                  licenses[i].stripe_subscription_id = call'[p].sub
      ]_vars

C20_Witness ==
    /\ ev.step = "status_begin" /\ ev.out = "not_found"
    /\ Len(licenses) >= 1
    /\ ev.args.sub \in SubIds

\* the step is a gate call with a sound token that verify_token refuses on the
\* license it found
GateRefusedOnLicense ==
    /\ ev'.step = "request_begin"
    /\ ev'.out \notin {"missing_token", "invalid_token", "token_expired"}
    /\ ev'.id # 0

\* C21: on an active license with notes_used = notes_limit > 0 a gate call fails
\* with quota-exhausted; a reconciliation run after expires_at has passed leaves
\* notes_used = 0, and then a gate call with a valid token passes the checks,
\* returns the payload and leaves notes_used = 1
C21_QuotaThenReset ==
    [][/\ GateRefusedOnLicense =>
            /\ ~licenses[ev'.id].active
                  \/ licenses[ev'.id].notes_used >= licenses[ev'.id].notes_limit
            /\ (licenses[ev'.id].active
                   /\ licenses[ev'.id].notes_used = licenses[ev'.id].notes_limit) =>
                  /\ ev'.out = "quota_exhausted"
                  /\ \A b \in Builds :
                        Response(b, ev'.out) =
                           [status |-> 403,
                            detail |-> "You have reached your monthly note generation limit. Please upgrade your plan."]
       /\ ReconAlone =>
            \A i \in 1..Len(licenses) :
               (licenses[i].active /\ licenses[i].expires_at < now) =>
                  licenses'[i].notes_used = 0
       /\ \A p \in Procs :
            (pc[p] = "gate_commit" /\ pc'[p] # "gate_commit" /\ loc[p].used = 0) =>
               /\ ev'.step = "gate_commit"
               /\ licenses'[loc[p].id].notes_used = 1
      ]_vars

\* C22: check-and-record is indivisible per identifier: of the allow_request
\* calls made on one limiter for one identifier within one window, however they
\* follow one another, at most Limit return true
C22_AtMostLimitPerWindow ==
    \A p \in Procs, x \in Idents, t0 \in 0..MaxTime :
       Cardinality({i \in 1..Len(calls) :
                      /\ calls[i].p = p /\ calls[i].x = x /\ calls[i].ok
                      /\ t0 <= calls[i].t /\ calls[i].t < t0 + Window}) <= Limit

C22_Witness ==
    \E p \in Procs, x \in Idents :
       LET h == CallsOf(p, x)
       IN /\ Len(h) = MaxCalls
          /\ \A i \in 1..Len(h) : h[i].t = h[1].t
          /\ Cardinality({i \in 1..Len(h) : h[i].ok}) = Limit

\* C23: a reconciliation run interleaved with gate calls for a license it
\* resets has no hazard: a gate call that read the license before the reset and
\* commits after it leaves notes_used = 1, the one success since the reset
\* (under SpecCycle a stored notes_used of 0 below the value a call read can
\* only come from a reconciliation)
C23_ResetNotOverwritten ==
    [][\A p \in Procs :
          (pc[p] = "gate_commit" /\ pc'[p] # "gate_commit"
             /\ loc[p].used > 0 /\ licenses[loc[p].id].notes_used = 0) =>
            licenses'[loc[p].id].notes_used = 1
      ]_vars

\* C24: a failure while reconciling one license does not abort the sweep for
\* the others: every other license the run's query returned is still reset by
\* that run
C24_FailureSparesOthers ==
    [][\A p \in Procs :
          (pc[p] = "recon_commit" /\ pc'[p] # "recon_commit"
             /\ ev'.step = "recon_fail" /\ ev'.id # 0) =>
            \A j \in loc[p].ids \ {ev'.id} :
               /\ licenses'[j].notes_used = 0
               /\ licenses'[j].expires_at = loc[p].t + CycleLen
      ]_vars

\* C29: reset_monthly_usage is all-or-nothing: a run in which an error occurs
\* before or at its commit is rolled back, raises the error to its caller and
\* changes notes_used and expires_at of no license; a run that commits writes
\* the new expires_at to every license its query returned
C29_AllOrNothing ==
    [][\A p \in Procs :
          (pc[p] = "recon_commit" /\ pc'[p] # "recon_commit") =>
             \/ /\ ev'.step = "recon_fail" /\ ev'.out = "raised"
                /\ \A i \in 1..Len(licenses) :
                      /\ licenses'[i].notes_used = licenses[i].notes_used
                      /\ licenses'[i].expires_at = licenses[i].expires_at
             \/ /\ ev'.step = "recon_commit"
                /\ \A i \in loc[p].ids : licenses'[i].expires_at = loc[p].t + CycleLen
      ]_vars

C29_Witness ==
    /\ ev.step = "recon_fail" /\ ev.id # 0 /\ ev.n = Len(licenses)
    /\ \A i \in 1..Len(licenses) : licenses[i].active /\ licenses[i].expires_at < now
    /\ \E i \in 1..Len(licenses) : licenses[i].notes_used > 0

\* the step belongs to a gate call for user a: the call is refused, passes the
\* checks, or commits
GateStepFor(a) ==
    \/ ev'.step = "request_begin" /\ ev'.args.user_id = a
    \/ \E p \in Procs : GateGranted(p) /\ call'[p].user_id = a
    \/ \E p \in Procs : pc[p] = "gate_commit" /\ pc'[p] # "gate_commit" /\ call[p].user_id = a

\* C25: gate calls for different users are independent: a step of a gate call
\* for user a, whatever its outcome and whatever calls for another user b are
\* in flight, changes no field of b's license and does not change what a gate
\* call for b decides
C25_UsersIndependent ==
    [][\A a \in {"-"} \cup {Subscribers[i].user_id : i \in 1..Len(Subscribers)} :
          GateStepFor(a) =>
             \A j \in 1..Len(licenses) :
                licenses[j].user_id # a =>
                   /\ licenses'[j] = licenses[j]
                   /\ \A t0 \in {0, now} :
                         LET tok == create_token(licenses[j].user_id, licenses[j].email, "starter", t0)
                         IN GateOutcome(tok, now, licenses') = GateOutcome(tok, now, licenses)
      ]_vars

C25_Witness ==
    /\ ev.step = "gate_commit" /\ ev.args.user_id = "u1"
    /\ \E q \in Procs : pc[q] = "gate_commit" /\ call[q].user_id = "u2"
    /\ licenses[2].notes_used > 0

\* C26 as stated: pruning keeps the timestamps of the closed window
\* [now - Window, now], so a call is refused when Limit allowed requests of the
\* identifier lie at most Window back, one exactly Window back included
C26_ClosedWindow ==
    \A p \in Procs, x \in Idents :
       LET h == CallsOf(p, x)
       IN \A i \in 1..Len(h) :
             Cardinality({j \in 1..(i - 1) : h[j].ok /\ h[i].t - h[j].t <= Window}) >= Limit
                => ~h[i].ok

\* C26 amended: pruning keeps the timestamps r with now - r < Window, the
\* half-open window (now - Window, now]: after every call no stored timestamp is
\* Window or more old, and a call is refused exactly when Limit allowed
\* requests of the identifier lie less than Window back
C26_HalfOpenWindow ==
    /\ (ev.step = "allow_request") =>
          \A p \in Procs :
             (Len(calls) > 0 /\ calls[Len(calls)].p = p) =>
                \A k \in 1..Len(requests[p][ev.args.user_id]) :
                   now - requests[p][ev.args.user_id][k] < Window
    /\ \A p \in Procs, x \in Idents :
          LET h == CallsOf(p, x)
          IN \A i \in 1..Len(h) :
                ~h[i].ok <=>
                   Cardinality({j \in 1..(i - 1) : h[j].ok /\ h[i].t - h[j].t < Window}) >= Limit

C26_Witness ==
    \E p \in Procs, x \in Idents :
       LET h == CallsOf(p, x)
       IN /\ Len(h) >= 2
          /\ h[1].ok /\ h[2].ok
          /\ h[2].t - h[1].t = Window

\* the allowed requests of identifier x on the limiter of process p, in order
AllowedOf(p, x) == SelectSeq(calls, LAMBDA c : c.p = p /\ c.x = x /\ c.ok)

\* C27: sliding-window bound: over any sequence of allow_request calls with
\* non-decreasing times, for every identifier, no Limit + 1 allowed requests
\* have timestamps that all lie within a span shorter than Window
C27_SlidingBound ==
    \A p \in Procs, x \in Idents :
       LET g == AllowedOf(p, x)
       IN \A i \in 1..Len(g) :
             i + Limit <= Len(g) => g[i + Limit].t - g[i].t >= Window

C27_Witness ==
    \E p \in Procs, x \in Idents :
       /\ Len(AllowedOf(p, x)) = MaxCalls
       /\ \A i \in 1..Len(calls) : calls[i].p = p /\ calls[i].x = x

\* the list a limiter holds for an identifier after the calls h, all for that
\* identifier, made on a limiter that saw no other call
RECURSIVE Replay(_)
Replay(h) ==
    IF h = <<>> THEN <<>>
    ELSE AllowRequest(Replay(SubSeq(h, 1, Len(h) - 1)), h[Len(h)].t)[2]

\* C28: allow_request(x) never changes the stored timestamps of an identifier
\* y # x (nor those of another limiter), so the result of a call for an
\* identifier depends only on the earlier calls for it and on the current time:
\* it is the result a limiter would give that had seen those calls alone
C28_IdentifiersIndependent ==
    [][Len(calls') > Len(calls) =>
          LET c == calls'[Len(calls')]
          IN /\ \A q \in Procs, y \in Idents :
                   (q # c.p \/ y # c.x) => requests'[q][y] = requests[q][y]
             /\ c.ok = AllowRequest(Replay(CallsOf(c.p, c.x)), c.t)[1]
             /\ requests'[c.p][c.x] = Replay(SelectSeq(calls', LAMBDA d : d.p = c.p /\ d.x = c.x))
      ]_vars

C28_Witness ==
    \E p \in Procs, x, y \in Idents :
       /\ x # y
       /\ Len(calls) = MaxCalls /\ calls[Len(calls)].p = p /\ calls[Len(calls)].x = x
       /\ ~calls[Len(calls)].ok
       /\ Len(CallsOf(p, y)) = 1 /\ calls[2].x = y
       /\ requests[p][y] # <<>>

\* C30: a license's notes_used is never negative and never decreases between
\* two resets: the only steps that lower it are the commit of an upsert and
\* the commit of a reconciliation, and both leave it at exactly 0
C30_UsedMonotone ==
    [][\A i \in 1..Len(licenses) :
          /\ licenses'[i].notes_used >= 0
          /\ licenses'[i].notes_used < licenses[i].notes_used =>
                /\ ev'.step \in {"create_commit", "recon_commit"}
                /\ licenses'[i].notes_used = 0
      ]_vars

\* the checks of the gate in the order claimed for them
CheckOrder ==
    <<"missing_token", "invalid_token", "token_expired", "no_license",
      "inactive", "quota_exhausted">>

\* whether the check c, taken on its own, fails for the token tok presented at
\* time t against the store L
CheckFails(c, tok, t, L) ==
    CASE c = "missing_token" -> tok.kind = "missing"
      [] c = "invalid_token" -> tok.kind # "jwt"
      [] c = "token_expired" -> tok.exp < t
      [] c = "no_license" -> ~\E i \in 1..Len(L) : L[i].user_id = tok.sub
      [] c = "inactive" -> \E i \in 1..Len(L) : L[i].user_id = tok.sub /\ ~L[i].active
      [] c = "quota_exhausted" ->
           \E i \in 1..Len(L) :
              L[i].user_id = tok.sub /\ L[i].notes_used >= L[i].notes_limit

\* the first check of the order that fails, or pass when none does
FirstFailing(tok, t, L) ==
    LET F == {k \in 1..Len(CheckOrder) : CheckFails(CheckOrder[k], tok, t, L)}
    IN IF F = {} THEN "pass" ELSE CheckOrder[Min(F)]

\* the step is a gate call with a sound token by a user whose license is both
\* inactive and at quota
GateOnInactiveAtQuota ==
    /\ ev'.step = "request_begin"
    /\ ev'.out \notin {"missing_token", "invalid_token", "token_expired"}
    /\ ev'.id # 0
    /\ ~licenses[ev'.id].active
    /\ licenses[ev'.id].notes_used >= licenses[ev'.id].notes_limit

\* C31: verify_token makes its checks in the order missing token, token
\* validity, token expiry, license existence, active flag, quota, so every call
\* ends in the one outcome of the first check that fails (or passes on to the
\* charge when none fails); a call on a license that is both inactive and at
\* quota is refused with 403 and the inactive-subscription reason, never with
\* the quota one
C31_FixedOrder ==
    [][/\ \A p \in Procs, tok \in Tokens(now) :
            RequestBegin(p, tok) =>
               LET f == FirstFailing(tok, now, licenses)
               IN IF f = "pass"
                  THEN pc'[p] = "gate_commit" /\ ev' = NoEv
                  ELSE /\ ev'.step = "request_begin" /\ ev'.out = f
                       /\ pc' = pc /\ licenses' = licenses
       /\ GateOnInactiveAtQuota =>
            /\ ev'.out = "inactive"
            /\ \A b \in Builds :
                  Response(b, ev'.out) =
                     [status |-> 403,
                      detail |-> "Your license is inactive. Please renew your subscription."]
      ]_vars

\* C32: what verify_token decides does not depend on expires_at: a call with a
\* sound token on an active license with notes_used < notes_limit passes the
\* checks and its commit leaves notes_used one above the value the call read,
\* also when the license's expires_at is already in the past and no
\* reconciliation has moved it yet; the gate writes no expires_at
C32_ExpiryIgnored ==
    [][/\ \A p \in Procs, tok \in Tokens(now) :
            LET id == FindByUser(licenses, tok.sub)
            IN (/\ RequestBegin(p, tok)
                /\ jwt_decode(tok, now).out = "claims"
                /\ id # 0
                /\ licenses[id].active
                /\ licenses[id].notes_used < licenses[id].notes_limit) =>
                  /\ GateGranted(p)
                  /\ loc'[p].id = id
       /\ \A p \in Procs :
            (pc[p] = "gate_commit" /\ pc'[p] # "gate_commit") =>
               /\ licenses'[loc[p].id].notes_used = loc[p].used + 1
               /\ licenses'[loc[p].id].expires_at = licenses[loc[p].id].expires_at
       /\ \A tok \in Tokens(now), i \in 1..Len(licenses), x \in 0..(MaxTime + CycleLen) :
            GateOutcome(tok, now, [licenses EXCEPT ![i].expires_at = x])
               = GateOutcome(tok, now, licenses)
      ]_vars

\* a gate call has just charged a license whose expires_at is in the past
C32_Witness ==
    /\ ev.step = "gate_commit" /\ ev.delta = 1
    /\ licenses[ev.id].active
    /\ licenses[ev.id].expires_at < now

\* the sum of notes_used over the rows S of the store L
RECURSIVE UsedIn(_, _)
UsedIn(L, S) ==
    IF S = {} THEN 0
    ELSE LET i == Min(S) IN L[i].notes_used + UsedIn(L, S \ {i})

\* C33: get_usage_statistics leaves the license store as it found it; in the
\* dict it returns, total_users is the number of licenses with active = True
\* and total_notes_used is the sum of notes_used over exactly those licenses,
\* so that a license with active = False adds to neither
C33_StatsOfActive ==
    [][ev'.step = "usage_stats" =>
          LET A == {i \in 1..Len(licenses) : licenses[i].active}
          IN /\ licenses' = licenses
             /\ calls'[1].total_users = Cardinality(A)
             /\ calls'[1].total_notes_used = UsedIn(licenses, A)
      ]_vars

\* statistics were just taken of a store with an active and an inactive
\* license that both have been used
C33_Witness ==
    /\ ev.step = "usage_stats"
    /\ \E i, j \in 1..Len(licenses) :
          /\ licenses[i].active /\ licenses[i].notes_used > 0
          /\ ~licenses[j].active /\ licenses[j].notes_used > 0
    /\ calls[1].total_users = 1
====
